---- MODULE Spec2Model ----
(***************************************************************************)
(* Model of dvc/repo/experiments/init.py: the `dvc exp init` wizard.       *)
(* One behaviour is one invocation of init(): the pre-check, the           *)
(* interactive session (or the non-interactive suppression of defaults),   *)
(* the assembly of the stage, the final confirmation and the commit unit.  *)
(***************************************************************************)
EXTENDS Integers, Sequences, FiniteSets, TLC

VARIABLES
    pc,          \* position of init(): see the actions
    name,        \* init's `name` (resolved by `name or type` in the pre-check)
    type,        \* init's `type`
    defaults,    \* init's `defaults` (rebound to the session's result)
    overrides,   \* init's `overrides`; init_interactive pops "cmd" from it
    interactive, \* init's `interactive`
    force,       \* init's `force`
    name0,       \* the `name` argument as the caller passed it
    overrides0,  \* the overrides mapping as the caller passed it
    defaults0,   \* the defaults mapping as the caller passed it
    queue,       \* keys the session still has to prompt, head = pending prompt
    ret,         \* init_interactive's `ret`
    asked,       \* keys whose prompt has been issued, in order
    retries,     \* rejected responses to the pending prompt
    lastAnswer,  \* <<key, typed line, outcome, validator consulted>> of the
                 \* latest response to a question prompt
    accepted,    \* the typed line that was accepted, per answered key
    returned,    \* init_interactive has returned
    confirmation, \* the answer to the final confirmation: "none", "yes", "no"
    context,     \* init's `context`
    stage,       \* the stage built by repo.stage.create
    dvcfile,     \* the pipeline file dvc.yaml
    ignored,     \* paths marked ignorable (the ignore-list state)
    tracked,     \* files registered with version control
    logDisable,  \* logging.root.manager.disable
    scopeOpen,   \* scm.track_file_changes scope is open
    previous_level, \* _disable_logging's saved level
    dvcfile0,    \* dvc.yaml before the invocation
    logDisable0, \* the logging-disable level before the invocation
    effects,     \* side effects performed by this invocation, in order
    result,      \* what init returned (None until it returns)
    error        \* the exception init raised (None if none)

vars == <<pc, name, type, defaults, overrides, interactive, force, name0,
          overrides0, defaults0, queue, ret, asked, retries, lastAnswer,
          accepted, returned, confirmation, context, stage,
          dvcfile, ignored, tracked, logDisable, scopeOpen, previous_level,
          dvcfile0, logDisable0, effects, result, error>>

\* arguments and pre-invocation values that no action changes
fixedVars == <<type, interactive, force, name0, overrides0, defaults0,
               dvcfile0, logDisable0>>
\* the interactive session's state
sessionVars == <<queue, ret, asked, retries, lastAnswer, accepted>>
\* the repository and process state
envVars == <<dvcfile, ignored, tracked, logDisable, scopeOpen, previous_level>>

----------------------------------------------------------------------------
(* Values *)

\* Python's None
None == "None"

\* the empty mapping {}
EmptyMap == <<>>

\* PROMPTS: the question keys
Keys == {"cmd", "code", "data", "models", "params", "metrics", "plots", "live"}

\* bool(v) for a string or None
Truthy(v) == v \notin {None, ""}

\* dict.get(k)
Get(f, k) == IF k \in DOMAIN f THEN f[k] ELSE None

\* dict without key k (the mapping left by dict.pop(k, None))
Pop(f, k) == [j \in DOMAIN f \ {k} |-> f[j]]

\* {**a, **b}
Merge(a, b) ==
    [k \in DOMAIN a \cup DOMAIN b |-> IF k \in DOMAIN b THEN b[k] ELSE a[k]]

\* d.update({k: v})
Update(f, k, v) == [j \in DOMAIN f \cup {k} |-> IF j = k THEN v ELSE f[j]]

\* a mutant of CompactMap: drops only None, keeps empty strings
CompactMapKeepsEmpty(f) == [k \in {j \in DOMAIN f : f[j] # None} |-> f[k]]

\* funcy.compact on a mapping: drops the items whose value is falsy
CompactMap(f) == [k \in {j \in DOMAIN f : Truthy(f[j])} |-> f[k]]

\* funcy.compact on a list
CompactList(s) == SelectSeq(s, Truthy)

\* a mutant of Lremove: nothing is removed
LremoveKeepsAll(provided, seq) == seq

\* funcy.lremove(provided.keys(), seq): the keys of seq not in provided
Lremove(provided, seq) == SelectSeq(seq, LAMBDA k : k \notin DOMAIN provided)

\* the elements of a sequence
Range(s) == {s[i] : i \in DOMAIN s}

----------------------------------------------------------------------------
(* The workspace and the prompt classes *)

\* what a path names in the workspace: an existing file, a directory, nothing
FileKind(path) ==
    CASE path \in {"p", "q"} -> "file"
      [] path = "d" -> "dir"
      [] OTHER -> "missing"

\* rich's InvalidResponse, as the outcome of process_response
Invalid == "InvalidResponse"

\* a mutant of RequiredProcess: an empty response is accepted
RequiredProcessAcceptsEmpty(value) == value

\* RequiredPrompt.process_response
RequiredProcess(value) == IF ~Truthy(value) THEN Invalid ELSE value

\* SkippablePrompt.skip_value
SkipValue == "n"

\* a mutant of SkippableProcess: the sentinel is returned as typed
SkippableProcessKeepsSentinel(value) == RequiredProcess(value)

\* SkippablePrompt.process_response
SkippableProcess(value) ==
    LET r == RequiredProcess(value)
    IN  IF r = Invalid THEN Invalid
        ELSE IF r = SkipValue THEN None ELSE r

\* prompt_cls.ask(PROMPTS[key], **kwargs) for one line of input `typed`:
\* rich returns the default for an empty line when a default was passed
\* (kwargs holds it only if it is not None), else process_response decides
Ask(key, default, typed) ==
    IF typed = "" /\ default # None THEN default
    ELSE IF key = "cmd" THEN RequiredProcess(typed)
    ELSE SkippableProcess(typed)

\* a mutant of ValidatePromptsInput: a missing params file is only warned about
ValidateNeverRetries(key, value) ==
    IF value = None THEN "ok"
    ELSE IF key \in {"code", "data", "params"} /\ FileKind(value) = "missing"
         THEN "warn" ELSE "ok"

\* init.validate_prompts_input: "ok", "warn", or the reason of a RetryPrompt
ValidatePromptsInput(key, value) ==
    IF value = None THEN "ok"
    ELSE IF key = "params"
         THEN CASE FileKind(value) = "missing" -> "does not exist"
                [] FileKind(value) = "dir" -> "is a directory"
                [] OTHER -> "ok"
    ELSE IF key \in {"code", "data"}
         THEN IF FileKind(value) = "missing" THEN "warn" ELSE "ok"
    ELSE "ok"

\* the reasons a RetryPrompt carries
RetryReasons == {"does not exist", "is a directory"}

\* _prompts(["cmd"], defaults) passes no validator; the groups pass init's
HasValidator(key) == key # "cmd"

\* one pass of _prompt's loop on the line `typed`:
\* <<outcome, value, validator consulted>>
PromptOnce(key, default, typed) ==
    LET value == Ask(key, default, typed)
    IN  IF value = Invalid THEN <<"Response required", None, FALSE>>
        ELSE IF ~HasValidator(key) THEN <<"accepted", value, FALSE>>
        ELSE LET v == ValidatePromptsInput(key, value)
             IN  IF v \in RetryReasons THEN <<v, None, TRUE>>
                 ELSE <<IF v = "warn" THEN "warned" ELSE "accepted",
                        value, TRUE>>

\* a mutant of Rejections: a warned answer is prompted again as well
RejectionsWithWarned == RetryReasons \cup {"Response required", "warned"}

\* the outcomes of PromptOnce after which the same key is prompted again
Rejections == RetryReasons \cup {"Response required"}

\* a mutant of PrimaryKeys: params is asked before models
PrimaryKeysSwapped == <<"code", "data", "params", "models">>

\* the primary group, in its order (init_interactive)
PrimaryKeys == <<"code", "data", "models", "params">>

\* a mutant of SecondaryKeys: the live key joins metrics and plots
SecondaryKeysAll(live) ==
    IF live THEN <<"live">> ELSE <<"metrics", "plots", "live">>

\* the secondary group of the output mode, in its order (init_interactive)
SecondaryKeys(live) == IF live THEN <<"live">> ELSE <<"metrics", "plots">>

\* a mutant of NothingToAsk: the session is skipped only when the command and
\* every key of both groups are supplied
NothingToAskAllSupplied(command, primary, secondary) ==
    Truthy(command) /\ primary = <<>> /\ secondary = <<>>

\* init_interactive's early return: `not (command or primary or secondary)`
NothingToAsk(command, primary, secondary) ==
    ~(Truthy(command) \/ primary # <<>> \/ secondary # <<>>)

----------------------------------------------------------------------------
(* Bounds and the inputs of one invocation *)

\* rejected responses the operator may give to one prompt
MaxRetries == 1

\* stage types: the live output mode is type "live"
Types == {"default", "live"}

\* the `name` arguments tried: none, or an explicit stage name
Names == {None, "train"}

\* the lines the operator may type
Typed == {"", "n", "p", "x", "d"}

\* the lines the operator may type at the prompt of a key
TypedFor(key) ==
    CASE key = "cmd" -> {"", "p"}
      [] key = "params" -> {"", "n", "p", "x", "d"}
      [] key \in {"code", "data"} -> {"", "n", "x"}
      [] OTHER -> {"", "n", "p"}

\* overrides of every set of keys, each holding a path; the command may
\* also be the empty string
KeySubsetOverrides ==
    UNION {{f \in [S -> {"", "q"}] : \A k \in S : k # "cmd" => f[k] = "q"}
           : S \in SUBSET Keys}

\* overrides supplying every key
FullOverrides == [k \in Keys |-> "q"]

\* overrides in which one key other than the command holds the empty string:
\* beside every other key, and beside the command alone
EmptyValueOverrides ==
    {[FullOverrides EXCEPT ![k] = ""] : k \in Keys \ {"cmd"}}
        \cup {[j \in {"cmd", k} |-> IF j = k THEN "" ELSE "q"] :
                  k \in Keys \ {"cmd"}}

\* the overrides mappings tried
OverrideMaps == KeySubsetOverrides \cup EmptyValueOverrides

\* the defaults mappings tried: none; a value for every key, with a params
\* file that exists; a value for some keys, with a params file that does not
\* exist and a metrics value equal to the skip sentinel; an empty command
\* alone
DefaultMaps ==
    {EmptyMap,
     [k \in Keys |-> CASE k = "cmd" -> "c" [] k = "params" -> "p"
                        [] OTHER -> "d"],
     [k \in {"code", "params", "metrics", "live"} |->
         CASE k = "params" -> "x" [] k = "metrics" -> "n" [] OTHER -> "d"],
     [k \in {"cmd"} |-> ""]}

\* a stage entry already in dvc.yaml
OldStage(n) ==
    [name |-> n, cmd |-> "old", deps |-> <<>>, params |-> <<>>,
     metrics |-> <<>>, plots |-> <<>>, live |-> None, outs |-> <<>>,
     checkpoints |-> <<>>]

\* dvc.yaml when it does not exist
NoFile == [exists |-> FALSE, stages |-> EmptyMap]

\* dvc.yaml before the invocation: absent, or holding stages
PipelineFiles ==
    {NoFile,
     [exists |-> TRUE,
      stages |-> [n \in {"default", "train"} |-> OldStage(n)]]}

\* the overrides tried together with a varied repository: every key, every
\* key but params, every key but the command
RepositoryOverrideMaps ==
    {FullOverrides, Pop(FullOverrides, "params"), Pop(FullOverrides, "cmd")}

\* logging.CRITICAL
CRITICAL == 50

\* the process-wide logging-disable levels tried
LogLevels == {0, 30}

\* the ignore list and the tracked files before the invocation
Ignored0 == {"old_out"}
Tracked0 == {"old_params"}

----------------------------------------------------------------------------
(* The state before init() is called *)

Init ==
    /\ pc = "start"
    /\ type \in Types
    /\ defaults \in DefaultMaps
    /\ interactive \in BOOLEAN
    /\ \/ /\ overrides \in OverrideMaps
          /\ name = None
          /\ force = FALSE
          /\ dvcfile = NoFile
          /\ logDisable = 0
       \/ /\ overrides \in RepositoryOverrideMaps
          /\ name \in Names
          /\ force \in BOOLEAN
          /\ dvcfile \in PipelineFiles
          /\ logDisable \in LogLevels
    /\ name0 = name
    /\ overrides0 = overrides
    /\ defaults0 = defaults
    /\ queue = <<>>
    /\ ret = EmptyMap
    /\ asked = <<>>
    /\ retries = 0
    /\ lastAnswer = <<>>
    /\ accepted = EmptyMap
    /\ returned = FALSE
    /\ confirmation = "none"
    /\ context = EmptyMap
    /\ stage = <<>>
    /\ dvcfile0 = dvcfile
    /\ ignored = Ignored0
    /\ tracked = Tracked0
    /\ logDisable0 = logDisable
    /\ previous_level = 0
    /\ scopeOpen = FALSE
    /\ effects = <<>>
    /\ result = <<>>
    /\ error = None

----------------------------------------------------------------------------
(* init(): the pre-check *)

\* a mutant of StageExists: force is ignored
StageExistsIgnoresForce(file, n, f) == file.exists /\ n \in DOMAIN file.stages

\* the condition under which _check_stage_exists raises DuplicateStageName
StageExists(file, n, f) == ~f /\ file.exists /\ n \in DOMAIN file.stages

\* `name or type`
ResolvedName(n, t) == IF Truthy(n) THEN n ELSE t

\* init, lines 261-269: resolve the name and run the pre-check
CheckStageExists ==
    /\ pc = "start"
    /\ name' = ResolvedName(name, type)
    /\ IF StageExists(dvcfile, name', force)
       THEN /\ pc' = "raised"
            /\ error' = "DuplicateStageName"
       ELSE /\ pc' = IF interactive THEN "session" ELSE "suppress"
            /\ error' = error
    /\ UNCHANGED <<fixedVars, sessionVars, envVars, defaults, overrides,
                   returned, confirmation, context, stage, effects, result>>

\* a mutant of Suppressed: nothing is suppressed
SuppressedNothing(d, live) == d

\* the defaults left by the non-interactive branch, lines 305-312
Suppressed(d, live) ==
    IF live THEN Pop(Pop(d, "metrics"), "plots") ELSE Pop(d, "live")

\* init, lines 304-312: not interactive, suppress the other mode's defaults
SuppressDefaults ==
    /\ pc = "suppress"
    /\ defaults' = Suppressed(defaults, type = "live")
    /\ pc' = "assemble"
    /\ UNCHANGED <<fixedVars, sessionVars, envVars, name, overrides, returned,
                   confirmation, context, stage, effects, result, error>>

----------------------------------------------------------------------------
(* init_interactive *)

\* the prompts issued so far, once the head of queue q is displayed
Issue(a, q) == IF q # <<>> THEN Append(a, Head(q)) ELSE a

\* a mutant of Questions: the command is asked after the groups
QuestionsCmdLast(command, primary, secondary) ==
    primary \o secondary \o (IF Truthy(command) THEN <<>> ELSE <<"cmd">>)

\* the keys the session prompts, in order: lines 201-202, 226, 227
Questions(command, primary, secondary) ==
    (IF Truthy(command) THEN <<>> ELSE <<"cmd">>) \o primary \o secondary

\* init_interactive, lines 179-205: pop the command from the overrides,
\* work out the groups, return {} at once or write the banner and start
\* asking (the workspace tree of lines 208-223 is rendering only)
StartSession ==
    /\ pc = "session"
    /\ LET command == Get(overrides, "cmd")
           provided == Pop(overrides, "cmd")
           primary == Lremove(provided, PrimaryKeys)
           secondary == Lremove(provided, SecondaryKeys(type = "live"))
       IN  /\ overrides' = provided
           /\ IF NothingToAsk(command, primary, secondary)
              THEN /\ defaults' = EmptyMap
                   /\ returned' = TRUE
                   /\ pc' = "assemble"
                   /\ UNCHANGED <<queue, ret, asked, effects>>
              ELSE /\ effects' = Append(effects, "banner")
                   /\ ret' = IF Truthy(command)
                             THEN Update(EmptyMap, "cmd", command)
                             ELSE EmptyMap
                   /\ queue' = Questions(command, primary, secondary)
                   /\ asked' = Issue(asked, queue')
                   /\ pc' = "prompt"
                   /\ UNCHANGED <<defaults, returned>>
    /\ UNCHANGED <<fixedVars, envVars, name, retries, lastAnswer, accepted,
                   confirmation, context, stage, result, error>>

\* _prompt, lines 130-140, on one line typed by the operator: a rejected
\* response prompts the same key again, an accepted one is stored in ret
\* and the next key is prompted
Answer(typed) ==
    /\ pc = "prompt"
    /\ queue # <<>>
    /\ typed \in TypedFor(Head(queue))
    /\ LET key == Head(queue)
           r == PromptOnce(key, Get(defaults, key), typed)
       IN  /\ lastAnswer' = <<key, typed, r[1], r[3]>>
           /\ IF r[1] \in Rejections
              THEN /\ retries < MaxRetries
                   /\ retries' = retries + 1
                   /\ UNCHANGED <<queue, ret, asked, accepted>>
              ELSE /\ ret' = Update(ret, key, r[2])
                   /\ accepted' = Update(accepted, key, typed)
                   /\ queue' = Tail(queue)
                   /\ asked' = Issue(asked, queue')
                   /\ retries' = 0
    /\ UNCHANGED <<fixedVars, envVars, pc, name, defaults, overrides, returned,
                   confirmation, context, stage, effects, result, error>>

\* init_interactive, line 228: return compact(ret), which init binds to
\* `defaults`
ReturnSession ==
    /\ pc = "prompt"
    /\ queue = <<>>
    /\ defaults' = CompactMap(ret)
    /\ returned' = TRUE
    /\ pc' = "assemble"
    /\ UNCHANGED <<fixedVars, sessionVars, envVars, name, overrides,
                   confirmation, context, stage, effects, result, error>>

\* the signals an interrupted read raises
Signals == {"KeyboardInterrupt", "EOFError"}

\* the prompt that is waiting for input: a question or the confirmation
Pending == IF pc = "confirm" THEN "confirm" ELSE Head(queue)

\* a handler that would wrap the signal in the program's own exception
ReraisedWrapped(sig) == "DvcException"

\* RichInputMixin.get_input, line 58: a bare raise re-raises the signal caught
Reraised(sig) == sig

\* RichInputMixin.get_input, lines 54-58: the operator interrupts a pending
\* prompt; a blank line is written and the signal propagates out of init
Interrupt(sig) ==
    /\ \/ pc = "prompt" /\ queue # <<>>
       \/ pc = "confirm"
    /\ lastAnswer' = <<Pending, sig, "interrupted", FALSE>>
    /\ effects' = Append(effects, "blank_line")
    /\ error' = Reraised(sig)
    /\ pc' = "raised"
    /\ UNCHANGED <<fixedVars, queue, ret, asked, retries, accepted, envVars,
                   name, defaults, overrides, returned, confirmation, context,
                   stage, result>>

----------------------------------------------------------------------------
(* init(): assembling the stage *)

\* a mutant of CreateStage: the models answer is always a regular output
CreateStageNoCheckpoint(n, ctx) ==
    [name |-> n,
     cmd |-> ctx["cmd"],
     deps |-> CompactList(<<Get(ctx, "code"), Get(ctx, "data")>>),
     params |-> CompactList(<<Get(ctx, "params")>>),
     metrics |-> CompactList(<<Get(ctx, "metrics")>>),
     plots |-> CompactList(<<Get(ctx, "plots")>>),
     live |-> Get(ctx, "live"),
     outs |-> CompactList(<<Get(ctx, "models")>>),
     checkpoints |-> <<>>]

\* repo.stage.create as init calls it, lines 317-334
CreateStage(n, ctx) ==
    LET checkpoint_out == Truthy(Get(ctx, "live"))
        models == CompactList(<<Get(ctx, "models")>>)
    IN  [name |-> n,
         cmd |-> ctx["cmd"],
         deps |-> CompactList(<<Get(ctx, "code"), Get(ctx, "data")>>),
         params |-> CompactList(<<Get(ctx, "params")>>),
         metrics |-> CompactList(<<Get(ctx, "metrics")>>),
         plots |-> CompactList(<<Get(ctx, "plots")>>),
         live |-> Get(ctx, "live"),
         outs |-> IF checkpoint_out THEN <<>> ELSE models,
         checkpoints |-> IF checkpoint_out THEN models ELSE <<>>]

\* the exception loadd_params raises on a path, None when it loads
LoaddParamsError(path) ==
    CASE FileKind(path) = "missing" -> "FileNotFoundError"
      [] FileKind(path) = "dir" -> "IsADirectoryError"
      [] OTHER -> None

\* a mutant of FinalContext: the defaults win over the overrides
FinalContextDefaultsWin(d, o) == Merge(o, d)

\* init, line 314: {**defaults, **overrides}
FinalContext(d, o) == Merge(d, o)

\* init, lines 314-334: merge the context, assert the command, load the
\* params file, build the stage
Assemble ==
    /\ pc = "assemble"
    /\ context' = FinalContext(defaults, overrides)
    /\ LET params == Get(context', "params")
       IN  IF "cmd" \notin DOMAIN context'
           THEN /\ error' = "AssertionError"
                /\ pc' = "raised"
                /\ UNCHANGED stage
           ELSE IF Truthy(params) /\ LoaddParamsError(params) # None
           THEN /\ error' = LoaddParamsError(params)
                /\ pc' = "raised"
                /\ UNCHANGED stage
           ELSE /\ stage' = <<CreateStage(name, context')>>
                /\ pc' = IF interactive THEN "confirm" ELSE "unit"
                /\ UNCHANGED error
    /\ UNCHANGED <<fixedVars, sessionVars, envVars, name, defaults, overrides,
                   returned, confirmation, effects, result>>

----------------------------------------------------------------------------
(* init(): the final confirmation and the commit unit *)

\* a mutant of AfterConfirm: a declined confirmation commits all the same
AfterConfirmAlwaysCommits(yes) == "unit"

\* init, lines 342-354: where init goes on the confirmation's answer, into
\* the commit unit or to `raise DvcException("Aborting ...")`
AfterConfirm(yes) == IF yes THEN "unit" ELSE "raised"

\* init, lines 342-346 and 353-354: the operator answers the confirmation
Confirm(yes) ==
    /\ pc = "confirm"
    /\ confirmation' = IF yes THEN "yes" ELSE "no"
    /\ pc' = AfterConfirm(yes)
    /\ error' = IF pc' = "raised" THEN "DvcException" ELSE error
    /\ UNCHANGED <<fixedVars, sessionVars, envVars, name, defaults, overrides,
                   returned, context, stage, effects, result>>

\* the effects of leaving the `with` statement of line 348 with both scopes
\* entered: the tracking scope exits, then _disable_logging's finally runs
Released == <<"scope_exit", "logging_restored">>

\* a mutant of StepRaises: the logging scope has no finally clause
StepRaisesWithoutFinally(step) ==
    /\ scopeOpen' = FALSE
    /\ logDisable' = logDisable
    /\ effects' = effects \o <<step \o "_raised", "scope_exit">>
    /\ error' = step \o "_error"
    /\ pc' = "raised"

\* a step of the commit unit raises: the scopes are released and the
\* exception leaves init
StepRaises(step) ==
    /\ scopeOpen' = FALSE
    /\ logDisable' = previous_level
    /\ effects' = effects \o <<step \o "_raised">> \o Released
    /\ error' = step \o "_error"
    /\ pc' = "raised"

\* init, line 348: enter _disable_logging, then scm.track_file_changes
EnterUnit(ok) ==
    /\ pc = "unit"
    /\ previous_level' = logDisable
    /\ IF ok
       THEN /\ logDisable' = CRITICAL
            /\ scopeOpen' = TRUE
            /\ effects' = effects \o <<"logging_disabled", "scope_open">>
            /\ pc' = "dump"
            /\ UNCHANGED error
       ELSE /\ logDisable' = logDisable
            /\ scopeOpen' = FALSE
            /\ effects' = effects \o <<"logging_disabled", "scope_open_raised",
                                       "logging_restored">>
            /\ error' = "scope_open_error"
            /\ pc' = "raised"
    /\ UNCHANGED <<fixedVars, sessionVars, name, defaults, overrides, returned,
                   confirmation, context, stage, dvcfile, ignored, tracked,
                   result>>

\* a mutant of Dumped: the entry is written only when the unit completes
DumpedNothing(file, st) == file

\* the pipeline file after stage.dump writes the stage entry
Dumped(file, st) ==
    [exists |-> TRUE,
     stages |-> [n \in DOMAIN file.stages \cup {st.name} |->
                    IF n = st.name THEN st ELSE file.stages[n]]]

\* init, line 349: stage.dump(update_lock=False)
Dump(ok) ==
    /\ pc = "dump"
    /\ IF ok
       THEN /\ dvcfile' = Dumped(dvcfile, stage[1])
            /\ effects' = Append(effects, "dump")
            /\ pc' = "ignore"
            /\ UNCHANGED <<logDisable, scopeOpen, error>>
       ELSE /\ StepRaises("dump")
            /\ UNCHANGED dvcfile
    /\ UNCHANGED <<fixedVars, sessionVars, name, defaults, overrides, returned,
                   confirmation, context, stage, ignored, tracked,
                   previous_level, result>>

\* the outputs of a stage: what stage.ignore_outs marks
StageOuts(st) ==
    Range(st.outs) \cup Range(st.checkpoints) \cup Range(st.metrics)
        \cup Range(st.plots) \cup (IF Truthy(st.live) THEN {st.live} ELSE {})

\* a mutant of TracksParams: the params file is always registered
TracksParamsAlways(ctx) == TRUE

\* init, line 351: `if params:`
TracksParams(ctx) == Truthy(Get(ctx, "params"))

\* init, line 350: stage.ignore_outs()
IgnoreOuts(ok) ==
    /\ pc = "ignore"
    /\ IF ok
       THEN /\ ignored' = ignored \cup StageOuts(stage[1])
            /\ effects' = Append(effects, "ignore_outs")
            /\ pc' = IF TracksParams(context) THEN "track" ELSE "exit"
            /\ UNCHANGED <<logDisable, scopeOpen, error>>
       ELSE /\ StepRaises("ignore_outs")
            /\ UNCHANGED ignored
    /\ UNCHANGED <<fixedVars, sessionVars, name, defaults, overrides, returned,
                   confirmation, context, stage, dvcfile, tracked,
                   previous_level, result>>

\* init, lines 351-352: scm.track_file(params)
TrackFile(ok) ==
    /\ pc = "track"
    /\ IF ok
       THEN /\ tracked' = tracked \cup {Get(context, "params")}
            /\ effects' = Append(effects, "track_file")
            /\ pc' = "exit"
            /\ UNCHANGED <<logDisable, scopeOpen, error>>
       ELSE /\ StepRaises("track_file")
            /\ UNCHANGED tracked
    /\ UNCHANGED <<fixedVars, sessionVars, name, defaults, overrides, returned,
                   confirmation, context, stage, dvcfile, ignored,
                   previous_level, result>>

\* init, lines 348 and 355: leave the `with` statement and return the stage
ExitUnit ==
    /\ pc = "exit"
    /\ scopeOpen' = FALSE
    /\ logDisable' = previous_level
    /\ effects' = effects \o Released
    /\ result' = stage
    /\ pc' = "done"
    /\ UNCHANGED <<fixedVars, sessionVars, name, defaults, overrides, returned,
                   confirmation, context, stage, dvcfile, ignored, tracked,
                   previous_level, error>>

----------------------------------------------------------------------------
(* The specification *)

Next ==
    \/ CheckStageExists
    \/ SuppressDefaults
    \/ StartSession
    \/ \E typed \in Typed : Answer(typed)
    \/ ReturnSession
    \/ \E sig \in Signals : Interrupt(sig)
    \/ Assemble
    \/ \E yes \in BOOLEAN : Confirm(yes)
    \/ \E ok \in BOOLEAN : EnterUnit(ok)
    \/ \E ok \in BOOLEAN : Dump(ok)
    \/ \E ok \in BOOLEAN : IgnoreOuts(ok)
    \/ \E ok \in BOOLEAN : TrackFile(ok)
    \/ ExitUnit

Spec == Init /\ [][Next]_vars

----------------------------------------------------------------------------
(* Vocabulary of the properties *)

\* the commit unit's side effects performed so far, in order
CommitEffects ==
    SelectSeq(effects, LAMBDA e : e \in {"dump", "ignore_outs", "track_file"})

\* a is a prefix of b
IsPrefix(a, b) == Len(a) <= Len(b) /\ a = SubSeq(b, 1, Len(a))

\* the session went past its early return (the banner is written then)
SessionAsks == "banner" \in Range(effects)

\* every question key in the wizard's order, for the run's output mode
AllQuestions ==
    <<"cmd", "code", "data", "models", "params">>
        \o (IF type = "live" THEN <<"live">> ELSE <<"metrics", "plots">>)

\* the stage name the run resolves to
Resolved == IF name0 # None THEN name0 ELSE type

----------------------------------------------------------------------------
(* C1 *)

\* C1: in an interactive init, once the operator has declined the final
\* confirmation, init has raised the user-cancellation error, has returned no
\* stage, has performed none of dump, ignore_outs and track_file, and the
\* pipeline file, the ignore list and the tracked files equal their values
\* before the invocation.
C1_DeclineWritesNothing ==
    confirmation = "no" =>
        /\ interactive
        /\ pc = "raised"
        /\ error = "DvcException"
        /\ result = <<>>
        /\ CommitEffects = <<>>
        /\ dvcfile = dvcfile0
        /\ ignored = Ignored0
        /\ tracked = Tracked0

\* a declined confirmation of a stage that has params and outputs to commit
C1_Witness ==
    /\ confirmation = "no"
    /\ pc = "raised"
    /\ stage # <<>>
    /\ stage[1].params # <<>>
    /\ stage[1].outs # <<>>

----------------------------------------------------------------------------
(* C2 *)

\* C2: when the confirmation is accepted (or the run is not interactive) and
\* no step raises, the commit unit performs dump, then ignore_outs, then
\* track_file if and only if the final context has a non-empty params
\* answer, each once; init returns the stage only after them; the pipeline
\* file then holds the stage as the entry of its name, the other entries
\* unchanged, the stage's outputs are ignorable and the params file tracked.
C2_CommitInOrderThenReturn ==
    /\ IsPrefix(CommitEffects, <<"dump", "ignore_outs", "track_file">>)
    /\ result # <<>> => pc = "done"
    /\ pc = "done" =>
        LET params == Get(context, "params")
        IN  /\ interactive => confirmation = "yes"
            /\ CommitEffects =
                   IF Truthy(params)
                   THEN <<"dump", "ignore_outs", "track_file">>
                   ELSE <<"dump", "ignore_outs">>
            /\ result = stage
            /\ dvcfile.exists
            /\ DOMAIN dvcfile.stages = DOMAIN dvcfile0.stages \cup {name}
            /\ dvcfile.stages[name] = stage[1]
            /\ \A n \in DOMAIN dvcfile0.stages \ {name} :
                   dvcfile.stages[n] = dvcfile0.stages[n]
            /\ ignored = Ignored0 \cup StageOuts(stage[1])
            /\ tracked = Tracked0 \cup (IF Truthy(params) THEN {params} ELSE {})

\* an accepted interactive run that committed a stage without params into a
\* pipeline file that held other stages
C2_Witness ==
    /\ pc = "done"
    /\ confirmation = "yes"
    /\ ~Truthy(Get(context, "params"))
    /\ dvcfile0.exists
    /\ stage[1].checkpoints # <<>>

----------------------------------------------------------------------------
(* C3 *)

\* the overrides supply the command and every key of both groups
AllSupplied ==
    Range(AllQuestions) \subseteq DOMAIN overrides0

\* C3: if the overrides supply the command, every primary key and every
\* secondary key of the output mode, init_interactive issues no prompt and
\* returns an empty result.
C3_FullySuppliedSessionReturnsEmpty ==
    (interactive /\ returned /\ AllSupplied) =>
        (asked = <<>> /\ defaults = EmptyMap)

----------------------------------------------------------------------------
(* C4 *)

\* C4 as stated: a key present in the overrides, whatever its value, is
\* never prompted and its value in the final merged context is the override
\* value.
C4_OverriddenNeverPromptedAnyValue ==
    \A k \in DOMAIN overrides0 :
        /\ k \notin Range(asked)
        /\ stage # <<>> => (k \in DOMAIN context /\ context[k] = overrides0[k])

\* the overrides hold an empty command and the run is interactive
EmptyCommandOverride ==
    interactive /\ "cmd" \in DOMAIN overrides0 /\ overrides0["cmd"] = ""

\* C4 (amended): a key present in the overrides is never prompted and its
\* value in the final merged context is the override value, except for a cmd
\* override that is the empty string in an interactive run: it counts as no
\* command, cmd is then the first prompt of every session that is not a
\* no-op and the final context holds the prompted answer.
C4_OverriddenNeverPrompted ==
    /\ \A k \in DOMAIN overrides0 :
           (k = "cmd" /\ EmptyCommandOverride)
           \/ /\ k \notin Range(asked)
              /\ stage # <<>> =>
                     (k \in DOMAIN context /\ context[k] = overrides0[k])
    /\ (EmptyCommandOverride /\ SessionAsks) => asked[1] = "cmd"
    /\ (EmptyCommandOverride /\ stage # <<>>) =>
           ("cmd" \in DOMAIN accepted /\ context["cmd"] = ret["cmd"])

\* a committed interactive run whose overrides hold an empty params value
\* and which prompted for other keys
C4_Witness ==
    /\ interactive
    /\ pc = "done"
    /\ "params" \in DOMAIN overrides0
    /\ overrides0["params"] = ""
    /\ asked # <<>>

----------------------------------------------------------------------------
(* C5 *)

\* C5 as stated: in a session that is not a no-op the keys prompted are
\* exactly the keys of [cmd, code, data, models, params, S] that are not in
\* the overrides, in that order.
C5_PromptOrderOfAbsentKeys ==
    LET expected ==
            SelectSeq(AllQuestions, LAMBDA k : k \notin DOMAIN overrides0)
    IN  SessionAsks =>
            /\ IsPrefix(asked, expected)
            /\ returned => asked = expected

\* C5 (amended): in a session that is not a no-op the keys prompted are
\* exactly the keys of [cmd, code, data, models, params, S] that the
\* overrides do not supply, in that order, an empty-string cmd override
\* counting as not supplied; keys of the {metrics, plots} pair and the live
\* key are never both prompted.
C5_PromptOrder ==
    LET expected ==
            SelectSeq(AllQuestions,
                      LAMBDA k : \/ k \notin DOMAIN overrides0
                                 \/ k = "cmd" /\ overrides0[k] = "")
    IN  /\ SessionAsks =>
            /\ IsPrefix(asked, expected)
            /\ returned => asked = expected
        /\ ~(/\ {"metrics", "plots"} \cap Range(asked) # {}
             /\ "live" \in Range(asked))

\* a live-mode session that asked every question
C5_Witness ==
    /\ returned
    /\ type = "live"
    /\ asked = <<"cmd", "code", "data", "models", "params", "live">>

----------------------------------------------------------------------------
(* C6 *)

\* the example's invocation: overrides of exactly cmd, code and data, type
\* default, interactive, no name
ExampleRun ==
    /\ interactive
    /\ type = "default"
    /\ name0 = None
    /\ overrides0 = [k \in {"cmd", "code", "data"} |-> "q"]

\* the stage the example commits has the name default, the overridden
\* command and the code and data dependencies
ExampleStage(st) ==
    /\ st.name = "default"
    /\ st.cmd = "q"
    /\ st.deps = <<"q", "q">>

\* C6 as stated: in the example the wizard asks only for models, metrics and
\* plots, in that order, and on confirmation commits a stage named default
\* with the code and data dependencies and no params.
C6_ExampleAsksModelsMetricsPlots ==
    ExampleRun =>
        /\ returned => asked = <<"models", "metrics", "plots">>
        /\ pc = "done" =>
               /\ "default" \in DOMAIN dvcfile.stages
               /\ ExampleStage(dvcfile.stages["default"])
               /\ dvcfile.stages["default"].params = <<>>

\* C6 (amended): in the example the wizard asks for models, params, metrics
\* and plots, in that order, and on confirmation commits a stage named
\* default with the code and data dependencies, which has no params exactly
\* when the params question was skipped with the sentinel.
C6_ExampleAsksModelsParamsMetricsPlots ==
    ExampleRun =>
        /\ IsPrefix(asked, <<"models", "params", "metrics", "plots">>)
        /\ returned => asked = <<"models", "params", "metrics", "plots">>
        /\ pc = "done" =>
               /\ confirmation = "yes"
               /\ "default" \in DOMAIN dvcfile.stages
               /\ ExampleStage(dvcfile.stages["default"])
               /\ dvcfile.stages["default"].params = <<>>
                      <=> accepted["params"] = "n"

\* the example, committed with the params question skipped
C6_Witness ==
    /\ ExampleRun
    /\ pc = "done"
    /\ accepted["params"] = "n"
    /\ accepted["models"] = "p"

----------------------------------------------------------------------------
(* C7 *)

\* C7: every answer the cmd prompt yields is a non-empty string.
C7_CmdPromptYieldsNonEmpty ==
    "cmd" \in DOMAIN accepted => Truthy(ret["cmd"])

----------------------------------------------------------------------------
(* C8 *)

\* C8: a prompted key other than cmd whose accepted answer is the sentinel
\* "n" has no value in ret, is absent from the result of init_interactive
\* and is absent from the final merged context.
C8_SentinelAnswerIsAbsent ==
    \A k \in DOMAIN accepted \ {"cmd"} :
        accepted[k] = "n" =>
            /\ ret[k] = None
            /\ returned => k \notin DOMAIN defaults
            /\ k \notin DOMAIN context

\* a committed run in which a key that had a default was skipped
C8_Witness ==
    /\ pc = "done"
    /\ \E k \in DOMAIN accepted \ {"cmd"} :
           accepted[k] = "n" /\ k \in DOMAIN defaults0

----------------------------------------------------------------------------
(* C9 *)

\* C9: in the final merged context, interactive run or not, metrics and
\* plots are present in live mode only if they are in the overrides, and
\* live is present outside live mode only if it is in the overrides.
C9_OtherModeKeysOnlyFromOverrides ==
    \A k \in IF type = "live" THEN {"metrics", "plots"} ELSE {"live"} :
        k \in DOMAIN context => k \in DOMAIN overrides0

\* a committed non-interactive live run whose defaults held metrics
C9_Witness ==
    /\ ~interactive
    /\ pc = "done"
    /\ type = "live"
    /\ "metrics" \in DOMAIN defaults0
    /\ "metrics" \notin DOMAIN context
    /\ "live" \in DOMAIN context

----------------------------------------------------------------------------
(* C10 *)

\* the pipeline file held a stage of the resolved name before the invocation
Duplicate == dvcfile0.exists /\ Resolved \in DOMAIN dvcfile0.stages

\* C10: if a stage of the resolved name exists and force is false, init has
\* failed with the duplicate-stage error as soon as it has run the
\* pre-check: no prompt was issued, no stage built, nothing written, the
\* pipeline file and the tracking state are unchanged. The duplicate-stage
\* error is raised in no other case, so never with force true.
C10_DuplicateStageFailsFirst ==
    /\ (pc # "start" /\ Duplicate /\ ~force) =>
           /\ pc = "raised"
           /\ error = "DuplicateStageName"
           /\ asked = <<>>
           /\ stage = <<>>
           /\ result = <<>>
           /\ effects = <<>>
           /\ dvcfile = dvcfile0
           /\ ignored = Ignored0
           /\ tracked = Tracked0
    /\ error = "DuplicateStageName" => (Duplicate /\ ~force)

\* an interactive run stopped by the pre-check on an explicit stage name
C10_Witness ==
    /\ pc = "raised"
    /\ error = "DuplicateStageName"
    /\ name0 = "train"
    /\ interactive

----------------------------------------------------------------------------
(* Validation of the answers: params is asked again, code and data warn *)

\* the last line read answered the question for `key` (it was not interrupted)
LineAnswered(key) ==
    /\ lastAnswer # <<>>
    /\ lastAnswer[1] = key
    /\ lastAnswer[3] # "interrupted"

\* the value a line stands for: the default of the key on an empty line
ValueOf(key, typed) ==
    IF typed = "" /\ key \in DOMAIN defaults0 THEN defaults0[key] ELSE typed

\* C11: an answer to the params prompt (typed, or the default taken by an
\* empty line) that names a missing file is rejected with "does not exist",
\* one that names a directory with "is a directory"; after a rejection the
\* session is still prompting params, nothing was stored for it and init has
\* raised nothing; the params value a session returns names a file
C11_InvalidParamsIsAskedAgain ==
    /\ LineAnswered("params") /\ lastAnswer[2] # SkipValue
         /\ Truthy(ValueOf("params", lastAnswer[2]))
       => LET value == ValueOf("params", lastAnswer[2])
          IN  /\ FileKind(value) = "missing"
                 => lastAnswer[3] = "does not exist"
              /\ FileKind(value) = "dir"
                 => lastAnswer[3] = "is a directory"
    /\ LineAnswered("params") /\ lastAnswer[3] \in RetryReasons
       => /\ pc = "prompt"
          /\ error = None
          /\ Head(queue) = "params"
          /\ "params" \notin DOMAIN ret
          /\ "params" \notin DOMAIN accepted
    /\ interactive /\ returned /\ "params" \in DOMAIN defaults
       => FileKind(defaults["params"]) = "file"

\* the default of params names a missing file, an empty line took it and was
\* rejected, and params is pending again
C11_Witness ==
    /\ lastAnswer = <<"params", "", "does not exist", TRUE>>
    /\ pc = "prompt"
    /\ Head(queue) = "params"

\* C12: an answer to the code or data prompt that names a missing path is
\* accepted on that line with a warning, stored, and returned by the session;
\* the validator rejects no answer to code, data, models, metrics, plots or
\* live; a line holding the skip value is accepted for every validated key
C12_MissingCodeOrDataOnlyWarns ==
    /\ \A key \in {"code", "data"} :
         LineAnswered(key) /\ lastAnswer[2] # SkipValue
           /\ Truthy(ValueOf(key, lastAnswer[2]))
           /\ FileKind(ValueOf(key, lastAnswer[2])) = "missing"
         => /\ lastAnswer[3] = "warned"
            /\ queue = <<>> \/ Head(queue) # key
    /\ \A key \in {"code", "data"} \cap DOMAIN accepted :
         accepted[key] # SkipValue /\ Truthy(ValueOf(key, accepted[key]))
         => /\ Get(ret, key) = ValueOf(key, accepted[key])
            /\ returned => Get(defaults, key) = ValueOf(key, accepted[key])
    /\ \A key \in {"code", "data", "models", "metrics", "plots", "live"} :
         LineAnswered(key) => lastAnswer[3] \notin RetryReasons
    /\ \A key \in Keys \ {"cmd"} :
         LineAnswered(key) /\ lastAnswer[2] = SkipValue
         => lastAnswer = <<key, SkipValue, "accepted", TRUE>>

\* data was the last key asked, the line named a missing path, it was
\* warned about and the session returned it
C12_Witness ==
    /\ lastAnswer = <<"data", "x", "warned", TRUE>>
    /\ returned
    /\ Get(defaults, "data") = "x"

----------------------------------------------------------------------------
(* Interrupts and the commit unit's scopes *)

\* C13: when a question or the confirmation is interrupted by
\* KeyboardInterrupt or EOFError, one blank line is written last, init raises
\* that same signal, the interrupted prompt was the last one read, no stage is
\* returned and nothing is committed
C13_InterruptPropagatesUnwrapped ==
    (error \in Signals \/ (lastAnswer # <<>> /\ lastAnswer[3] = "interrupted"))
    => /\ pc = "raised"
       /\ lastAnswer # <<>>
       /\ lastAnswer[3] = "interrupted"
       /\ error = lastAnswer[2]
       /\ lastAnswer[1] = (IF queue # <<>> THEN Head(queue) ELSE "confirm")
       /\ effects[Len(effects)] = "blank_line"
       /\ Len(SelectSeq(effects, LAMBDA e : e = "blank_line")) = 1
       /\ result = <<>>
       /\ CommitEffects = <<>>
       /\ "logging_disabled" \notin Range(effects)
       /\ dvcfile = dvcfile0
       /\ ignored = Ignored0
       /\ tracked = Tracked0

\* the confirmation is interrupted by the end of input
C13_Witness ==
    /\ lastAnswer = <<"confirm", "EOFError", "interrupted", FALSE>>
    /\ error = "EOFError"
    /\ pc = "raised"
    /\ stage # <<>>

\* what the two scopes of the commit unit did so far, in order
UnitEffects ==
    SelectSeq(effects, LAMBDA e : e \in {"logging_disabled", "scope_open",
                  "scope_open_raised", "scope_exit", "logging_restored"})

\* C14: logging is suppressed while the tracking scope is open; the scope is
\* open during every step of the unit; on every way out of the unit the
\* disable level is the one found before, an opened tracking scope is exited
\* and it is exited before logging is restored
C14_ScopesReleasedInReverseOrder ==
    /\ scopeOpen => logDisable = CRITICAL
    /\ pc \in {"dump", "ignore", "track", "exit"}
       => scopeOpen /\ UnitEffects = <<"logging_disabled", "scope_open">>
    /\ ~scopeOpen => logDisable = logDisable0
    /\ pc \in {"done", "raised"} => ~scopeOpen
    /\ pc \in {"done", "raised"} /\ UnitEffects # <<>>
       => UnitEffects \in
            {<<"logging_disabled", "scope_open", "scope_exit",
               "logging_restored">>,
             <<"logging_disabled", "scope_open_raised", "logging_restored">>}
    /\ pc = "done" => Len(UnitEffects) = 4

\* a step fails inside the unit when logging was already partly disabled
C14_Witness ==
    /\ error = "ignore_outs_error"
    /\ logDisable0 = 30
    /\ logDisable = 30
    /\ ~scopeOpen

\* C15: nothing is rolled back: when dump succeeded and ignore_outs or
\* track_file raises, init raises that error, returns no stage, and the new
\* stage entry is in the pipeline file; the steps after the failing one are
\* not executed
C15_NoRollback ==
    /\ error \in {"ignore_outs_error", "track_file_error"}
       => /\ pc = "raised"
          /\ result = <<>>
          /\ dvcfile.exists
          /\ stage[1].name \in DOMAIN dvcfile.stages
          /\ dvcfile.stages[stage[1].name] = stage[1]
          /\ dvcfile # dvcfile0
    /\ error = "dump_error"
       => /\ CommitEffects = <<>>
          /\ dvcfile = dvcfile0 /\ ignored = Ignored0 /\ tracked = Tracked0
    /\ error = "ignore_outs_error"
       => /\ CommitEffects = <<"dump">>
          /\ ignored = Ignored0 /\ tracked = Tracked0
    /\ error = "track_file_error"
       => /\ CommitEffects = <<"dump", "ignore_outs">>
          /\ ignored = Ignored0 \cup StageOuts(stage[1])
          /\ tracked = Tracked0

\* registering the params file failed in a repository without a pipeline
\* file: the file now exists and holds the stage
C15_Witness ==
    /\ error = "track_file_error"
    /\ dvcfile0 = NoFile
    /\ dvcfile.exists
    /\ result = <<>>

----------------------------------------------------------------------------
(* The merged context and the stage built from it *)

\* init is past line 315: the context was merged and the command asserted
Assembled ==
    /\ pc \notin {"start", "suppress", "session", "prompt", "assemble"}
    /\ error # "DuplicateStageName"

\* the keys of the output mode that is not in use
OtherModeKeys == IF type = "live" THEN {"metrics", "plots"} ELSE {"live"}

\* the caller's defaults without the other mode's keys, overlaid by the
\* caller's overrides
DefaultsUnderOverrides ==
    [k \in (DOMAIN defaults0 \ OtherModeKeys) \cup DOMAIN overrides0 |->
        IF k \in DOMAIN overrides0 THEN overrides0[k] ELSE defaults0[k]]

\* C16: a non-interactive init reads no question and no confirmation; its
\* final context is the defaults without the other mode's keys overlaid by
\* the overrides; a built stage goes to the commit unit unasked; without a
\* cmd in that context init fails on the assertion with no stage built and
\* nothing written, and the assertion fails in no other case
C16_NonInteractiveAsksNothing ==
    ~interactive =>
        /\ asked = <<>>
        /\ lastAnswer = <<>>
        /\ confirmation = "none"
        /\ ~SessionAsks
        /\ ~returned
        /\ pc \notin {"session", "prompt", "confirm"}
        /\ error \notin Signals \cup {"DvcException"}
        /\ Assembled => context = DefaultsUnderOverrides
        /\ Assembled /\ "cmd" \notin DOMAIN DefaultsUnderOverrides
           => /\ pc = "raised"
              /\ error = "AssertionError"
              /\ stage = <<>>
              /\ effects = <<>>
              /\ dvcfile = dvcfile0
              /\ ignored = Ignored0
              /\ tracked = Tracked0
        /\ error = "AssertionError" => "cmd" \notin DOMAIN DefaultsUnderOverrides

\* a non-interactive run committed a stage whose command the overrides and
\* the defaults both gave: the override's is used
C16_Witness ==
    /\ ~interactive
    /\ pc = "done"
    /\ Get(defaults0, "cmd") = "c"
    /\ Get(overrides0, "cmd") = "q"
    /\ context["cmd"] = "q"
    /\ confirmation = "none"

\* C17: in an interactive init that passed the pre-check, the cmd prompt is
\* the first one issued whenever the overrides hold no cmd, the assertion on
\* the command never fails, and the merged context holds a non-empty cmd
C17_InteractiveContextHasCommand ==
    interactive =>
        /\ error # "AssertionError"
        /\ Assembled /\ error \notin Signals
           => "cmd" \in DOMAIN context /\ Truthy(context["cmd"])
        /\ (returned /\ "cmd" \notin DOMAIN overrides0)
           => asked # <<>> /\ asked[1] = "cmd"

\* C18: the models answer of the final context is the stage's checkpoint
\* output when the context holds a non-empty live answer and its regular
\* output otherwise, never both; outside live mode without a live override
\* it is a regular output, and so it is when the operator skipped the live
\* prompt with the skip value
C18_ModelsIsCheckpointIffLive ==
    stage # <<>> =>
        LET st == stage[1]
            models == IF Truthy(Get(context, "models"))
                      THEN <<context["models"]>> ELSE <<>>
        IN  /\ IF Truthy(Get(context, "live"))
               THEN st.checkpoints = models /\ st.outs = <<>>
               ELSE st.outs = models /\ st.checkpoints = <<>>
            /\ (type # "live" /\ "live" \notin DOMAIN overrides0)
               => st.checkpoints = <<>>
            /\ (type = "live" /\ "live" \in DOMAIN accepted
                  /\ accepted["live"] = SkipValue)
               => st.checkpoints = <<>>

\* a live-mode session answered the live prompt with a path and committed:
\* the models answer is a checkpoint
C18_Witness ==
    /\ pc = "done"
    /\ type = "live"
    /\ "live" \in DOMAIN accepted
    /\ accepted["live"] = "p"
    /\ stage[1].checkpoints # <<>>
    /\ stage[1].outs = <<>>

\* C19, its termination half on finished runs: an interactive init that
\* passed the pre-check and was not interrupted raises only after it has
\* read the final confirmation
C19_SessionReachesConfirmation ==
    (interactive /\ pc = "raised")
    => \/ error \in Signals \cup {"DuplicateStageName"}
       \/ confirmation # "none"

====
